---- MODULE Spec2Model ----
(***************************************************************************)
(* A model of summarizer_app.py: a Streamlit script that extracts text     *)
(* from a pasted text, an uploaded file, a webpage or a YouTube video and  *)
(* sends it to a chat-completion endpoint for a bullet-point summary.      *)
(*                                                                         *)
(* A Python str is a sequence of one-character strings, a bytes object a   *)
(* sequence of integers 0..255.  The third-party libraries (PyPDF2,        *)
(* python-docx, newspaper, youtube_transcript_api, openai) are the         *)
(* environment: what each returns or raises is an input of the operator    *)
(* that models the call.                                                   *)
(***************************************************************************)
EXTENDS Integers, Sequences, FiniteSets, TLC

VARIABLES
  \* ---- widget state kept by the front-end between script runs
  input_choice,        \* st.radio: the selected input source
  text_area,           \* st.text_area: the pasted text
  uploaded_file,       \* st.file_uploader: <<>> (None) or <<file>>
  url_input,           \* st.text_input "Enter webpage URL"
  youtube_input,       \* st.text_input "Enter YouTube video URL"
  \* ---- the script's variables at the end of the latest run
  text_input, file_text, url_text, youtube_text,
  clean_url_text, clean_youtube_text, final_input,
  button,              \* what st.button("Summarize") returned in the run
  warnings,            \* the st.warning / st.error messages of the run
  requests,            \* the chat-completion requests the run issued
  summary,             \* <<>> or <<text>>: what st.write(summary) displayed
  responses,           \* what the endpoint answered to each of them
  crashed,             \* "none", or the call whose exception ended the run
  \* ---- one call of a function on its own (the function specifications)
  fn_called,           \* "none" or the name of the function applied
  fn_file,             \* the UploadedFile argument
  fn_url,              \* the url argument
  fn_env,              \* what the library behind the call answers
  fn_ret               \* what the call returned, raised and did

uiVars == <<input_choice, text_area, uploaded_file, url_input, youtube_input>>
runVars == <<button, warnings, requests, responses, summary, crashed>>
textVars == <<text_input, file_text, url_text, youtube_text,
              clean_url_text, clean_youtube_text, final_input>>
fnVars == <<fn_called, fn_file, fn_url, fn_env, fn_ret>>
vars == <<uiVars, runVars, textVars, fnVars>>

\* ------------------------------------------------------------------ bounds
MaxFileLen == 2
MaxTail == 3
MaxPaste == 2

\* ------------------------------------------------------- Python str methods
\* s.startswith(p)
StartsWith(s, p) == Len(s) >= Len(p) /\ SubSeq(s, 1, Len(p)) = p

\* s.endswith(p)
EndsWith(s, p) == Len(s) >= Len(p) /\ SubSeq(s, Len(s) - Len(p) + 1, Len(s)) = p

\* s.find(p) + 1: the index of the first occurrence of p in s, 0 when there is none
Find(s, p) ==
  LET hits == {i \in 1..(Len(s) - Len(p) + 1) : SubSeq(s, i, i + Len(p) - 1) = p}
  IN IF hits = {} THEN 0 ELSE CHOOSE i \in hits : \A j \in hits : i <= j

\* p in s
Contains(s, p) == Find(s, p) # 0

\* s.split(sep): the pieces between the occurrences of sep, found left to right
RECURSIVE Split(_, _)
Split(s, sep) ==
  LET i == Find(s, sep)
  IN IF i = 0 THEN <<s>>
     ELSE <<SubSeq(s, 1, i - 1)>> \o Split(SubSeq(s, i + Len(sep), Len(s)), sep)

\* The characters of s before the first one that is in stops
PrefixBefore(s, stops) ==
  LET ends == {i \in 1..Len(s) : s[i] \in stops}
  IN IF ends = {} THEN s
     ELSE SubSeq(s, 1, (CHOOSE i \in ends : \A j \in ends : i <= j) - 1)

\* ch in s
Has(s, ch) == \E i \in 1..Len(s) : s[i] = ch

\* the characters str.strip() removes
Whitespace == {" ", "\t", "\n", "\r"}

RECURSIVE LStrip(_)
LStrip(s) ==
  IF s # <<>> /\ s[1] \in Whitespace THEN LStrip(Tail(s)) ELSE s

RECURSIVE RStrip(_)
RStrip(s) ==
  IF s # <<>> /\ s[Len(s)] \in Whitespace THEN RStrip(SubSeq(s, 1, Len(s) - 1)) ELSE s

\* s.strip()
Strip(s) == RStrip(LStrip(s))

\* sep.join(parts)
RECURSIVE Join(_, _)
Join(sep, parts) ==
  IF parts = <<>> THEN <<>>
  ELSE IF Len(parts) = 1 THEN parts[1]
  ELSE parts[1] \o sep \o Join(sep, Tail(parts))

\* ------------------------------------------------------------ bytes.decode
\* chr(cp): the character of a code point
Chr(cp) ==
  CASE cp = 32 -> " "
    [] cp = 65 -> "A"
    [] cp = 97 -> "a"
    [] OTHER -> "U+" \o ToString(cp)

IsCont(b) == b >= 128 /\ b <= 191

\* The length of the well-formed UTF-8 sequence at the head of b, 0 when the
\* head is not one (the strict decoder: no overlong form, no surrogate,
\* nothing above U+10FFFF).
Utf8SeqLen(b) ==
  LET n == Len(b)
      c2 == n >= 2 /\ IsCont(b[2])
      c3 == n >= 3 /\ IsCont(b[3])
      c4 == n >= 4 /\ IsCont(b[4])
  IN CASE b[1] < 128 -> 1
       [] b[1] >= 194 /\ b[1] <= 223 -> IF c2 THEN 2 ELSE 0
       [] b[1] = 224 -> IF c2 /\ b[2] >= 160 /\ c3 THEN 3 ELSE 0
       [] b[1] = 237 -> IF c2 /\ b[2] <= 159 /\ c3 THEN 3 ELSE 0
       [] b[1] >= 225 /\ b[1] <= 239 /\ b[1] # 237 -> IF c2 /\ c3 THEN 3 ELSE 0
       [] b[1] = 240 -> IF c2 /\ b[2] >= 144 /\ c3 /\ c4 THEN 4 ELSE 0
       [] b[1] >= 241 /\ b[1] <= 243 -> IF c2 /\ c3 /\ c4 THEN 4 ELSE 0
       [] b[1] = 244 -> IF c2 /\ b[2] <= 143 /\ c3 /\ c4 THEN 4 ELSE 0
       [] OTHER -> 0

\* The code point of the n-byte sequence at the head of b
Utf8CodePoint(b, n) ==
  CASE n = 1 -> b[1]
    [] n = 2 -> (b[1] % 32) * 64 + (b[2] % 64)
    [] n = 3 -> (b[1] % 16) * 4096 + (b[2] % 64) * 64 + (b[3] % 64)
    [] OTHER -> (b[1] % 8) * 262144 + (b[2] % 64) * 4096 + (b[3] % 64) * 64 + (b[4] % 64)

\* b.decode("utf-8"): ok is FALSE where Python raises UnicodeDecodeError
RECURSIVE Utf8Decode(_)
Utf8Decode(b) ==
  IF b = <<>> THEN [ok |-> TRUE, text |-> <<>>]
  ELSE LET n == Utf8SeqLen(b)
       IN IF n = 0 THEN [ok |-> FALSE, text |-> <<>>]
          ELSE LET rest == Utf8Decode(SubSeq(b, n + 1, Len(b)))
               IN [ok |-> rest.ok,
                   text |-> IF rest.ok THEN <<Chr(Utf8CodePoint(b, n))>> \o rest.text
                            ELSE <<>>]

\* b.decode("latin-1"): every byte is its own code point
Latin1Decode(b) == [i \in 1..Len(b) |-> Chr(b[i])]

\* ------------------------------------------------------- extract_file_text
\* uploaded_file.read() with the stream at position pos: the bytes from pos
\* to the end, and the stream left at the end
Read(data, pos) == [bytes |-> SubSeq(data, pos + 1, Len(data)), pos |-> Len(data)]

IsNonEmpty(s) == s # <<>>

\* The ".txt" branch: decode what read() returns as UTF-8 and, when that
\* raises UnicodeDecodeError, decode what a second read() returns as Latin-1
extract_txt(data) ==
  LET first == Read(data, 0)
      utf8 == Utf8Decode(first.bytes)
      second == Read(data, first.pos)
  IN IF utf8.ok
     THEN [value |-> utf8.text, raised |-> FALSE, pos |-> first.pos]
     ELSE [value |-> Latin1Decode(second.bytes), raised |-> FALSE, pos |-> second.pos]

\* The ".pdf" branch: PdfReader raises on a file it cannot parse (doc.ok is
\* FALSE); otherwise the pages' non-empty texts joined by newlines
extract_pdf(f) ==
  IF f.doc.ok
  THEN [value |-> Join(<<"\n">>, SelectSeq(f.doc.parts, IsNonEmpty)),
        raised |-> FALSE, pos |-> Len(f.data)]
  ELSE [value |-> <<>>, raised |-> TRUE, pos |-> Len(f.data)]

\* The ".docx" branch: Document raises on a file it cannot parse; otherwise
\* all the paragraphs' texts joined by newlines
extract_docx(f) ==
  IF f.doc.ok
  THEN [value |-> Join(<<"\n">>, f.doc.parts), raised |-> FALSE, pos |-> Len(f.data)]
  ELSE [value |-> <<>>, raised |-> TRUE, pos |-> Len(f.data)]

\* The suffix test read as a substring test
FileBranchAnywhere(name) ==
  IF Contains(name, <<".","t","x","t">>) THEN "txt"
  ELSE IF Contains(name, <<".","p","d","f">>) THEN "pdf"
  ELSE IF Contains(name, <<".","d","o","c","x">>) THEN "docx"
  ELSE "none"

\* The if / elif chain on uploaded_file.name
FileBranch(name) ==
  IF EndsWith(name, <<".","t","x","t">>) THEN "txt"
  ELSE IF EndsWith(name, <<".","p","d","f">>) THEN "pdf"
  ELSE IF EndsWith(name, <<".","d","o","c","x">>) THEN "docx"
  ELSE "none"

\* extract_file_text(uploaded_file): value is what it returns, raised whether
\* an exception left it, pos where it left the file's stream, branch the
\* branch it took
extract_file_text(f) ==
  LET branch == FileBranch(f.name)
      r == CASE branch = "txt" -> extract_txt(f.data)
             [] branch = "pdf" -> extract_pdf(f)
             [] branch = "docx" -> extract_docx(f)
             [] OTHER -> [value |-> <<>>, raised |-> FALSE, pos |-> 0]
  IN [value |-> r.value, raised |-> r.raised, pos |-> r.pos, branch |-> branch]

\* --------------------------------------------------- extract_text_from_url
ExtractorPrefix == <<"[","E","x","t","r","a","c","t","o","r">>
NoTextSentinel ==
  <<"[","E","x","t","r","a","c","t","o","r",":"," ","N","o"," ","t","e","x","t"," ","f","o","u","n","d","."," ","T","r","y"," ","d","o","w","n","l","o","a","d","i","n","g"," ","a","n","d"," ","u","p","l","o","a","d","i","n","g"," ","t","h","e"," ","P","D","F"," ","i","n","s","t","e","a","d",".","]">>
FailedScrapeSentinel ==
  <<"[","E","x","t","r","a","c","t","o","r",":"," ","F","a","i","l","e","d"," ","t","o"," ","s","c","r","a","p","e","."," ","T","r","y"," ","d","o","w","n","l","o","a","d","i","n","g"," ","a","n","d"," ","u","p","l","o","a","d","i","n","g"," ","t","h","e"," ","P","D","F"," ","i","n","s","t","e","a","d",".","]">>

\* urlparse(url).netloc: what follows the "//" after the scheme, up to the
\* path, the query or the fragment
Netloc(url) ==
  LET i == Find(url, <<":","/","/">>)
  IN IF i = 0 THEN <<>>
     ELSE PrefixBefore(SubSeq(url, i + 3, Len(url)), {"/", "?", "#"})

\* Article(url) raises: the constructor parses the url with urlparse, which
\* raises ValueError on a netloc with one square bracket and not the other
ArticleRejects(url) == Has(Netloc(url), "[") # Has(Netloc(url), "]")

\* The try body: article.download(), article.parse(), article.text.strip().
\* env is what newspaper answers: kind "ok" with the article's text, or the
\* step that raises.  kind is "return" or the exception that leaves the body.
url_body(url, env) ==
  IF env.kind = "ok"
  THEN LET text == Strip(env.text)
       IN IF text = <<>>
          THEN [kind |-> "return", value |-> NoTextSentinel, fetched |-> <<url>>]
          ELSE [kind |-> "return", value |-> text, fetched |-> <<url>>]
  ELSE [kind |-> "Exception", value |-> <<>>, fetched |-> <<url>>]

\* extract_text_from_url(url): Article(url), which no handler covers, then
\* the body under "except Exception"
extract_text_from_url(url, env) ==
  LET b == url_body(url, env)
  IN IF ArticleRejects(url)
     THEN [value |-> <<>>, raised |-> TRUE, fetched |-> <<>>]
     ELSE IF b.kind = "return"
     THEN [value |-> b.value, raised |-> FALSE, fetched |-> b.fetched]
     ELSE [value |-> FailedScrapeSentinel, raised |-> FALSE, fetched |-> b.fetched]

\* ----------------------------------------------- extract_text_from_youtube
InvalidYoutubeSentinel == <<"[","E","x","t","r","a","c","t","o","r",":"," ","I","n","v","a","l","i","d"," ","Y","o","u","T","u","b","e"," ","U","R","L"," ","f","o","r","m","a","t",".","]">>
EmptyTranscriptSentinel == <<"[","E","x","t","r","a","c","t","o","r",":"," ","T","r","a","n","s","c","r","i","p","t"," ","n","o","t"," ","f","o","u","n","d"," ","o","r"," ","e","m","p","t","y",".","]">>
CaptionsDisabledSentinel == <<"[","E","x","t","r","a","c","t","o","r",":"," ","C","a","p","t","i","o","n","s"," ","a","r","e"," ","d","i","s","a","b","l","e","d"," ","f","o","r"," ","t","h","i","s"," ","v","i","d","e","o",".","]">>
NoTranscriptSentinel == <<"[","E","x","t","r","a","c","t","o","r",":"," ","N","o"," ","t","r","a","n","s","c","r","i","p","t"," ","a","v","a","i","l","a","b","l","e"," ","f","o","r"," ","t","h","i","s"," ","v","i","d","e","o",".","]">>
FailedTranscriptSentinel == <<"[","E","x","t","r","a","c","t","o","r",":"," ","F","a","i","l","e","d"," ","t","o"," ","g","e","t"," ","t","r","a","n","s","c","r","i","p","t",".","]">>

Last(seq) == seq[Len(seq)]

\* video_id after the if / elif: <<>> is None, <<id>> a string
VideoId(url) ==
  IF Contains(url, <<"y","o","u","t","u","b","e",".","c","o","m","/","w","a","t","c","h","?","v","=">>)
  THEN <<Split(Last(Split(url, <<"v","=">>)), <<"&">>)[1]>>
  ELSE IF Contains(url, <<"y","o","u","t","u",".","b","e","/">>)
  THEN <<Split(Last(Split(url, <<"/">>)), <<"?">>)[1]>>
  ELSE <<>>

\* The test read as "video_id is None"
VideoIdIsNone(video_id) == video_id = <<>>

\* not video_id: None or the empty string
NoVideoId(video_id) == video_id = <<>> \/ video_id[1] = <<>>

\* The try body.  env is what YouTubeTranscriptApi.get_transcript answers:
\* kind "ok" with the entries' texts, or the exception it raises ("Exception"
\* stands for any other one, an entry without 'text' included).
youtube_body(url, env) ==
  LET video_id == VideoId(url)
  IN IF NoVideoId(video_id)
     THEN [kind |-> "return", value |-> InvalidYoutubeSentinel, fetched |-> <<>>]
     ELSE IF env.kind = "ok"
     THEN LET text == Strip(Join(<<" ">>, env.entries))
          IN IF text = <<>>
             THEN [kind |-> "return", value |-> EmptyTranscriptSentinel,
                   fetched |-> <<video_id[1]>>]
             ELSE [kind |-> "return", value |-> text, fetched |-> <<video_id[1]>>]
     ELSE [kind |-> env.kind, value |-> <<>>, fetched |-> <<video_id[1]>>]

\* extract_text_from_youtube(url): the body under its three except clauses
extract_text_from_youtube(url, env) ==
  LET b == youtube_body(url, env)
      value == CASE b.kind = "return" -> b.value
                 [] b.kind = "TranscriptsDisabled" -> CaptionsDisabledSentinel
                 [] b.kind = "NoTranscriptFound" -> NoTranscriptSentinel
                 [] OTHER -> FailedTranscriptSentinel
  IN [value |-> value, raised |-> FALSE, fetched |-> b.fetched]

\* ---------------------------------------------------------- summarize_text
\* The request of client.chat.completions.create for a prompt text
ChatRequest(text) ==
  [model |-> "mistral-7b-instruct-v0.3",
   stream |-> FALSE,
   messages |-> <<[role |-> "system", content |-> <<"Y","o","u"," ","a","r","e"," ","a"," ","h","e","l","p","f","u","l"," ","s","u","m","m","a","r","i","z","e","r",".">>],
                  [role |-> "user",
                   content |-> <<"S","u","m","m","a","r","i","z","e"," ","t","h","i","s"," ","i","n"," ","b","u","l","l","e","t"," ","p","o","i","n","t","s",":","\n","\n">> \o text]>>]

\* The call repeated once when the endpoint fails
summarize_text_retrying(text, api) ==
  IF api.kind = "ok"
  THEN [requests |-> <<ChatRequest(text)>>, responses |-> <<api>>,
        raised |-> FALSE, content |-> api.content]
  ELSE [requests |-> <<ChatRequest(text), ChatRequest(text)>>, responses |-> <<api, api>>,
        raised |-> TRUE, content |-> <<>>]

\* summarize_text(validated_prompt): one request; api is what the endpoint
\* answers, the first choice's content or a failure, which the call raises
summarize_text(text, api) ==
  [requests |-> <<ChatRequest(text)>>,
   responses |-> <<api>>,
   raised |-> api.kind # "ok",
   content |-> IF api.kind = "ok" THEN api.content ELSE <<>>]

\* ------------------------------------------------------------- the script
InputChoices == {"Paste Text", "Upload File", "Webpage URL", "YouTube URL"}

InvalidWebpageWarning == <<"I","n","v","a","l","i","d"," ","w","e","b","p","a","g","e"," ","U","R","L"," ","f","o","r","m","a","t",".">>
InvalidYoutubeWarning == <<"I","n","v","a","l","i","d"," ","Y","o","u","T","u","b","e"," ","U","R","L"," ","f","o","r","m","a","t",".">>
EmptyInputWarning == <<"P","l","e","a","s","e"," ","p","r","o","v","i","d","e"," ","s","o","m","e"," ","i","n","p","u","t","!">>

\* URLInput(url=u) of pydantic: u is accepted when it is "http://" or
\* "https://" followed by a non-empty host, which holds a square bracket
\* only with its pair
UrlRest(u) == IF StartsWith(u, <<"h","t","t","p","s",":","/","/">>) THEN SubSeq(u, 9, Len(u))
              ELSE SubSeq(u, 8, Len(u))
HostLen(rest) == Len(PrefixBefore(rest, {"/", "?", "#"}))
HttpUrlValid(u) ==
  /\ StartsWith(u, <<"h","t","t","p","s",":","/","/">>) \/ StartsWith(u, <<"h","t","t","p",":","/","/">>)
  /\ HostLen(UrlRest(u)) > 0
  /\ Has(Netloc(u), "[") = Has(Netloc(u), "]")

\* str(valid.url) of pydantic 2: the url with "/" as its path when it has none
HttpUrlStr(u) ==
  LET rest == UrlRest(u)
      n == HostLen(rest)
      head == SubSeq(u, 1, Len(u) - Len(rest) + n)
      after == SubSeq(rest, n + 1, Len(rest))
  IN IF after = <<>> \/ after[1] # "/" THEN head \o <<"/">> \o after ELSE u

\* The script's four texts as the previous run left them
CarriedTexts ==
  [text_input |-> text_input, file_text |-> file_text,
   url_text |-> url_text, youtube_text |-> youtube_text]

\* text_input, file_text, url_text, youtube_text = "", "", "", ""
ResetTexts ==
  [text_input |-> <<>>, file_text |-> <<>>, url_text |-> <<>>, youtube_text |-> <<>>]

\* The extraction taken as it is
CleanTextUnfiltered(text) == text

\* clean_url_text, clean_youtube_text: the extraction unless it is empty or
\* an extractor sentinel
CleanText(text) ==
  IF text # <<>> /\ ~StartsWith(text, ExtractorPrefix) THEN text ELSE <<>>

\* The chain with the pasted text first
FinalInputPasteFirst(file, clean_url, clean_youtube, text) ==
  IF text # <<>> THEN text
  ELSE IF file # <<>> THEN file
  ELSE IF clean_url # <<>> THEN clean_url
  ELSE clean_youtube

\* final_input = file_text or clean_url_text or clean_youtube_text or text_input
FinalInput(file, clean_url, clean_youtube, text) ==
  IF file # <<>> THEN file
  ELSE IF clean_url # <<>> THEN clean_url
  ELSE IF clean_youtube # <<>> THEN clean_youtube
  ELSE text

\* The test without strip()
IsEmptyInput(final) == final = <<>>

\* not final_input.strip()
IsBlankInput(final) == Strip(final) = <<>>

\* ------------------------------------------------------------- the inputs
RECURSIVE SeqsUpTo(_, _)
SeqsUpTo(S, n) ==
  IF n = 0 THEN {<<>>}
  ELSE LET shorter == SeqsUpTo(S, n - 1)
       IN shorter \cup {Append(s, x) : s \in shorter, x \in S}

\* The bytes files are made of: "A", " ", and 0xC3 0xA9, which together are
\* the UTF-8 form of U+00E9 and apart are not UTF-8
FileBytes == {65, 32, 195, 169}

FileNames == {<<"a",".","t","x","t">>, <<"a",".","p","d","f">>, <<"a",".","d","o","c","x">>, <<"A",".","T","X","T">>, <<"a",".","t","x","t",".","b","a","k">>,
              <<"a",".","m","d">>, <<"t","x","t">>}

\* What the PDF / DOCX parser finds in the file: ok is FALSE for a file it
\* rejects, parts are the page or paragraph texts
Docs == {[ok |-> FALSE, parts |-> <<>>],
         [ok |-> TRUE, parts |-> <<>>],
         [ok |-> TRUE, parts |-> <<<<"a">>>>],
         [ok |-> TRUE, parts |-> <<<<"a">>, <<>>, <<" ","a">>>>]}

Files == [name : FileNames, data : SeqsUpTo(FileBytes, MaxFileLen), doc : Docs]

\* What newspaper answers for a webpage
ArticleTexts == {<<>>, <<" ","\n">>, <<"a">>, <<" ","a"," ","a","\n">>, <<"[","E","x","t","r","a","c","t","o","r">>}
ArticleOutcomes ==
  {[kind |-> k, text |-> <<>>] : k \in {"download raises", "parse raises"}}
  \cup {[kind |-> "ok", text |-> t] : t \in ArticleTexts}

\* What the transcript service answers for a video id
TranscriptEntries == {<<>>, <<<<" ">>>>, <<<<" ">>, <<>>>>, <<<<"a">>>>, <<<<"a"," ">>, <<" ","a">>>>}
TranscriptOutcomes ==
  {[kind |-> k, entries |-> <<>>] :
     k \in {"TranscriptsDisabled", "NoTranscriptFound", "Exception"}}
  \cup {[kind |-> "ok", entries |-> e] : e \in TranscriptEntries}

\* The urls the extractors are applied to: each head followed by every tail
\* of at most MaxTail characters, and some urls of the shapes in use
UrlHeads == {<<"h","t","t","p","s",":","/","/","w","w","w",".","y","o","u","t","u","b","e",".","c","o","m","/","w","a","t","c","h","?","v","=">>, <<"h","t","t","p","s",":","/","/","y","o","u","t","u",".","b","e","/">>,
             <<"h","t","t","p","s",":","/","/","e","x","a","m","p","l","e",".","c","o","m","/","w","a","t","c","h","?","v","=">>, <<"h","t","t","p","s",":","/","/","e","x","a","m","p","l","e",".","c","o","m","/">>}
UrlTailChars == {"a", "v", "=", "&", "?", "/"}
UrlExtras == {<<"h","t","t","p","s",":","/","/","w","w","w",".","y","o","u","t","u","b","e",".","c","o","m","/","w","a","t","c","h","?","v","=","a","b","c","&","r","v","=","x","y","z">>,
              <<"h","t","t","p","s",":","/","/","w","w","w",".","y","o","u","t","u","b","e",".","c","o","m","/","w","a","t","c","h","?","v","=","a","b","c","&","t","=","1","0","s">>,
              <<"h","t","t","p","s",":","/","/","w","w","w",".","y","o","u","t","u","b","e",".","c","o","m","/","w","a","t","c","h","?","a","p","p","=","d","e","s","k","t","o","p","&","v","=","a","b","c">>,
              <<"h","t","t","p","s",":","/","/","w","w","w",".","y","o","u","t","u","b","e",".","c","o","m","/","e","m","b","e","d","/","a","b","c">>,
              <<"h","t","t","p","s",":","/","/","y","o","u","t","u",".","b","e","/","a","b","c","?","t","=","1","0">>,
              <<"h","t","t","p","s",":","/","/","y","o","u","t","u",".","b","e","/","a","b","c","/">>,
              <<"h","t","t","p",":","/","/","[">>,
              <<>>}
Urls == {h \o t : h \in UrlHeads, t \in SeqsUpTo(UrlTailChars, MaxTail)} \cup UrlExtras

\* What the endpoint answers to a request
ApiOutcomes == {[kind |-> "ok", content |-> <<"-"," ","a">>],
                [kind |-> "APIError", content |-> <<>>]}

\* What the user pastes, uploads and types
Pastes == SeqsUpTo({"a", " "}, MaxPaste)
UploadableNames == {<<"a",".","t","x","t">>, <<"a",".","p","d","f">>, <<"a",".","d","o","c","x">>, <<"A",".","T","X","T">>}
UiFiles ==
  {f \in Files :
     /\ f.name \in UploadableNames
     /\ FileBranch(f.name) \in {"pdf", "docx"} => f.data = <<65>>
     /\ FileBranch(f.name) \notin {"pdf", "docx"} => f.doc = [ok |-> FALSE, parts |-> <<>>]}
UiUrls == {<<"h","t","t","p","s",":","/","/","a">>, <<"h","t","t","p",":","/","/","a","/","a">>, <<"a">>, <<"f","t","p",":","/","/","a","/","a">>, <<"h","t","t","p","s",":","/","/">>, <<"h","t","t","p",":","/","/","[">>,
           <<"h","t","t","p","s",":","/","/","y","o","u","t","u",".","b","e","/","a">>, <<"h","t","t","p","s",":","/","/","y","o","u","t","u",".","b","e">>,
           <<"h","t","t","p","s",":","/","/","w","w","w",".","y","o","u","t","u","b","e",".","c","o","m","/","w","a","t","c","h","?","v","=","a">>,
           <<"h","t","t","p","s",":","/","/","w","w","w",".","y","o","u","t","u","b","e",".","c","o","m","/","w","a","t","c","h","?","v","=","a","&","v","=">>}

NoFile == [name |-> <<>>, data |-> <<>>, doc |-> [ok |-> FALSE, parts |-> <<>>]]
NoRet == [value |-> <<>>, raised |-> FALSE]

\* ------------------------------------------------- the state at the start
UiInit ==
  /\ input_choice = "Paste Text"
  /\ text_area = <<>>
  /\ uploaded_file = <<>>
  /\ url_input = <<>>
  /\ youtube_input = <<>>

RunInit ==
  /\ button = FALSE
  /\ warnings = {}
  /\ requests = <<>>
  /\ responses = <<>>
  /\ summary = <<>>
  /\ crashed = "none"

TextInit ==
  /\ text_input = <<>>
  /\ file_text = <<>>
  /\ url_text = <<>>
  /\ youtube_text = <<>>
  /\ clean_url_text = <<>>
  /\ clean_youtube_text = <<>>
  /\ final_input = <<>>

FnInit ==
  /\ fn_called = "none"
  /\ fn_file = NoFile
  /\ fn_url = <<>>
  /\ fn_env = [kind |-> "none"]
  /\ fn_ret = NoRet

\* ------------------------------------- extract_file_text applied to a file
InitFile ==
  /\ UiInit /\ RunInit /\ TextInit
  /\ fn_called = "none"
  /\ fn_file \in Files
  /\ fn_url = <<>>
  /\ fn_env = [kind |-> "none"]
  /\ fn_ret = NoRet

CallExtractFileText ==
  /\ fn_called = "none"
  /\ fn_called' = "extract_file_text"
  /\ fn_ret' = extract_file_text(fn_file)
  /\ UNCHANGED <<uiVars, runVars, textVars, fn_file, fn_url, fn_env>>

NextFile == CallExtractFileText

SpecFile == InitFile /\ [][NextFile]_vars

\* ------------------------------------- the two extractors applied to a url
InitExtract ==
  /\ UiInit /\ RunInit /\ TextInit
  /\ fn_called = "none"
  /\ fn_file = NoFile
  /\ fn_url \in Urls
  /\ fn_env = [kind |-> "none"]
  /\ fn_ret = NoRet

CallExtractTextFromUrl ==
  /\ fn_called = "none"
  /\ \E env \in ArticleOutcomes :
       /\ fn_env' = env
       /\ fn_ret' = extract_text_from_url(fn_url, env)
  /\ fn_called' = "extract_text_from_url"
  /\ UNCHANGED <<uiVars, runVars, textVars, fn_file, fn_url>>

CallExtractTextFromYoutube ==
  /\ fn_called = "none"
  /\ \E env \in TranscriptOutcomes :
       /\ fn_env' = env
       /\ fn_ret' = extract_text_from_youtube(fn_url, env)
  /\ fn_called' = "extract_text_from_youtube"
  /\ UNCHANGED <<uiVars, runVars, textVars, fn_file, fn_url>>

NextExtract == CallExtractTextFromUrl \/ CallExtractTextFromYoutube

SpecExtract == InitExtract /\ [][NextExtract]_vars

\* ------------------------------------------------------- the interactive app
Init == UiInit /\ RunInit /\ TextInit /\ FnInit

\* What a run issues when it summarizes nothing
NoSummarize == [requests |-> <<>>, responses |-> <<>>, raised |-> FALSE, content |-> <<>>]

\* The "Upload File" branch of a run: the file's extraction, or the text as
\* reset when no file is extracted
FileResult(choice, upl) ==
  IF choice = "Upload File" /\ upl # <<>>
  THEN extract_file_text(upl[1])
  ELSE [value |-> ResetTexts.file_text, raised |-> FALSE]

\* The "Webpage URL" / "YouTube URL" branch of a run: typed is the text
\* widget's value, reset the text before the branch, invalid the warning for
\* a url URLInput rejects, ex what the extractor does on the validated url.
\* text is url_text / youtube_text after the branch, shown the warnings it
\* displays, raised whether the extractor's exception ended the run.
UrlBranch(selected, typed, reset, invalid, ex) ==
  IF selected /\ typed # <<>>
  THEN IF ~HttpUrlValid(typed)
       THEN [text |-> reset, raised |-> FALSE,
             shown |-> {invalid} \cup (IF StartsWith(reset, ExtractorPrefix)
                                       THEN {reset} ELSE {})]
       ELSE IF ex.raised
       THEN [text |-> reset, raised |-> TRUE, shown |-> {}]
       ELSE [text |-> ex.value, raised |-> FALSE,
             shown |-> IF StartsWith(ex.value, ExtractorPrefix) THEN {ex.value} ELSE {}]
  ELSE [text |-> reset, raised |-> FALSE, shown |-> {}]

\* One run of the script, top to bottom, on the widgets' new values: the
\* front-end reruns the whole script after every interaction.  pressed is
\* whether the Summarize button started the run.  The libraries answer anew
\* in every run (art, tr, api); an answer is drawn only for a call the
\* selected source can make.  An exception of an extractor or of
\* summarize_text ends the run where it is raised: nothing after that point
\* is assigned or displayed.  SummarizerPrompt accepts every str, so the
\* button's ValidationError handler is not entered.
ScriptRun(pressed) ==
  \E art \in IF input_choice' = "Webpage URL" THEN ArticleOutcomes
              ELSE {[kind |-> "ok", text |-> <<>>]},
     tr \in IF input_choice' = "YouTube URL" THEN TranscriptOutcomes
             ELSE {[kind |-> "ok", entries |-> <<>>]},
     api \in IF pressed THEN ApiOutcomes ELSE {[kind |-> "ok", content |-> <<>>]},
     fr \in {FileResult(input_choice', uploaded_file')} :
    \E ub \in {UrlBranch(input_choice' = "Webpage URL", url_input', ResetTexts.url_text,
                         InvalidWebpageWarning,
                         extract_text_from_url(HttpUrlStr(url_input'), art))},
       yb \in {UrlBranch(input_choice' = "YouTube URL", youtube_input',
                         ResetTexts.youtube_text, InvalidYoutubeWarning,
                         extract_text_from_youtube(HttpUrlStr(youtube_input'), tr))} :
      \E stopped \in {fr.raised \/ ub.raised \/ yb.raised} :
        /\ text_input' = IF input_choice' = "Paste Text" THEN text_area'
                         ELSE ResetTexts.text_input
        /\ file_text' = IF fr.raised THEN ResetTexts.file_text ELSE fr.value
        /\ url_text' = ub.text
        /\ youtube_text' = yb.text
        /\ clean_url_text' = IF stopped THEN <<>> ELSE CleanText(url_text')
        /\ clean_youtube_text' = IF stopped THEN <<>> ELSE CleanText(youtube_text')
        /\ final_input' = IF stopped THEN <<>>
                          ELSE FinalInput(file_text', clean_url_text', clean_youtube_text',
                                          text_input')
        /\ button' = (pressed /\ ~stopped)
        /\ \E s \in {IF button' /\ ~IsBlankInput(final_input')
                     THEN summarize_text(final_input', api) ELSE NoSummarize} :
             /\ requests' = s.requests
             /\ responses' = s.responses
             /\ summary' = IF button' /\ ~IsBlankInput(final_input') /\ ~s.raised
                           THEN <<s.content>> ELSE <<>>
             /\ crashed' = IF fr.raised THEN "extract_file_text"
                           ELSE IF ub.raised THEN "extract_text_from_url"
                           ELSE IF yb.raised THEN "extract_text_from_youtube"
                           ELSE IF s.raised THEN "summarize_text"
                           ELSE "none"
        /\ warnings' = ub.shown \cup yb.shown
                       \cup (IF button' /\ IsBlankInput(final_input')
                             THEN {EmptyInputWarning} ELSE {})

\* The user selects another input source: only that source's widget is
\* drawn, with its default value; the widgets no longer drawn lose theirs
SelectSource ==
  \E c \in InputChoices \ {input_choice} :
    /\ input_choice' = c
    /\ text_area' = <<>>
    /\ uploaded_file' = <<>>
    /\ url_input' = <<>>
    /\ youtube_input' = <<>>
    /\ ScriptRun(FALSE)
    /\ UNCHANGED fnVars

EnterText ==
  \E t \in Pastes \ {text_area} :
    /\ input_choice = "Paste Text"
    /\ text_area' = t
    /\ UNCHANGED <<input_choice, uploaded_file, url_input, youtube_input>>
    /\ ScriptRun(FALSE)
    /\ UNCHANGED fnVars

UploadFile ==
  \E f \in UiFiles :
    /\ input_choice = "Upload File"
    /\ uploaded_file # <<f>>
    /\ uploaded_file' = <<f>>
    /\ UNCHANGED <<input_choice, text_area, url_input, youtube_input>>
    /\ ScriptRun(FALSE)
    /\ UNCHANGED fnVars

RemoveFile ==
  /\ input_choice = "Upload File"
  /\ uploaded_file # <<>>
  /\ uploaded_file' = <<>>
  /\ UNCHANGED <<input_choice, text_area, url_input, youtube_input>>
  /\ ScriptRun(FALSE)
  /\ UNCHANGED fnVars

EnterUrl ==
  \E u \in (UiUrls \cup {<<>>}) \ {url_input} :
    /\ input_choice = "Webpage URL"
    /\ url_input' = u
    /\ UNCHANGED <<input_choice, text_area, uploaded_file, youtube_input>>
    /\ ScriptRun(FALSE)
    /\ UNCHANGED fnVars

EnterYoutubeUrl ==
  \E u \in (UiUrls \cup {<<>>}) \ {youtube_input} :
    /\ input_choice = "YouTube URL"
    /\ youtube_input' = u
    /\ UNCHANGED <<input_choice, text_area, uploaded_file, url_input>>
    /\ ScriptRun(FALSE)
    /\ UNCHANGED fnVars

PressSummarize ==
  /\ UNCHANGED uiVars
  /\ ScriptRun(TRUE)
  /\ UNCHANGED fnVars

Next ==
  \/ SelectSource
  \/ EnterText
  \/ UploadFile
  \/ RemoveFile
  \/ EnterUrl
  \/ EnterYoutubeUrl
  \/ PressSummarize

Spec == Init /\ [][Next]_vars

\* --------------------------------- the final_input chain applied to four texts
ChainTexts == {<<>>, <<"a">>, <<"b">>, <<" ">>, NoTextSentinel}

InitChain ==
  /\ UiInit /\ RunInit /\ FnInit
  /\ text_input \in ChainTexts
  /\ file_text \in ChainTexts
  /\ url_text \in ChainTexts
  /\ youtube_text \in ChainTexts
  /\ clean_url_text = <<>>
  /\ clean_youtube_text = <<>>
  /\ final_input = <<>>

ComputeFinalInput ==
  /\ fn_called = "none"
  /\ fn_called' = "final_input"
  /\ clean_url_text' = CleanText(url_text)
  /\ clean_youtube_text' = CleanText(youtube_text)
  /\ final_input' = FinalInput(file_text, clean_url_text', clean_youtube_text', text_input)
  /\ UNCHANGED <<uiVars, runVars, text_input, file_text, url_text, youtube_text,
                 fn_file, fn_url, fn_env, fn_ret>>

NextChain == ComputeFinalInput

SpecChain == InitChain /\ [][NextChain]_vars

\* ------------------------------------------------------------------ claims
\* s ends with suf: some split of s leaves suf as its second part
HasSuffix(s, suf) == \E k \in 0..Len(s) : SubSeq(s, k + 1, Len(s)) = suf

\* C3: for a file whose name ends in ".txt", extract_file_text returns the
\* UTF-8 decoding of the file's bytes when they are valid UTF-8, and otherwise
\* the Latin-1 decoding of the same, full content of the file.
C3_TxtDecodesWholeFile ==
  (fn_called = "extract_file_text" /\ HasSuffix(fn_file.name, <<".","t","x","t">>)) =>
    LET utf8 == Utf8Decode(fn_file.data)
    IN /\ ~fn_ret.raised
       /\ fn_ret.value = IF utf8.ok THEN utf8.text ELSE Latin1Decode(fn_file.data)

\* C4: extract_file_text takes its branch from the suffix of the file's name
\* alone (".txt", ".pdf", ".docx", case-sensitive, in that order), and for a
\* name with none of the suffixes it returns the empty string, raises nothing
\* and leaves the file unread.
C4_SuffixDispatch ==
  fn_called = "extract_file_text" =>
    LET name == fn_file.name
        expected == IF HasSuffix(name, <<".","t","x","t">>) THEN "txt"
                    ELSE IF HasSuffix(name, <<".","p","d","f">>) THEN "pdf"
                    ELSE IF HasSuffix(name, <<".","d","o","c","x">>) THEN "docx"
                    ELSE "none"
    IN /\ fn_ret.branch = expected
       /\ expected = "none" =>
            /\ fn_ret.value = <<>>
            /\ ~fn_ret.raised
            /\ fn_ret.pos = 0

\* An upper-case ".TXT" file with content: not decoded, not read
C4_Witness ==
  /\ fn_called = "extract_file_text"
  /\ fn_file.name = <<"A",".","T","X","T">>
  /\ fn_file.data # <<>>
  /\ fn_ret.branch = "none"
  /\ fn_ret.value = <<>>
  /\ fn_ret.pos = 0

\* The index of the last occurrence of p in s, 0 when there is none
LastFind(s, p) ==
  LET hits == {i \in 1..(Len(s) - Len(p) + 1) : SubSeq(s, i, i + Len(p) - 1) = p}
  IN IF hits = {} THEN 0 ELSE CHOOSE i \in hits : \A j \in hits : i >= j

\* What follows the last occurrence of p in s
AfterLast(s, p) == SubSeq(s, LastFind(s, p) + Len(p), Len(s))

\* The url is of a known shape and nothing stands where the video id is
\* parsed from: after the last "v=" and before an "&" (watch form), after the
\* last "/" and before a "?" (short form)
ParsedIdEmpty(url) ==
  IF Contains(url, <<"y","o","u","t","u","b","e",".","c","o","m","/","w","a","t","c","h","?","v","=">>)
  THEN LET rest == AfterLast(url, <<"v","=">>) IN rest = <<>> \/ rest[1] = "&"
  ELSE IF Contains(url, <<"y","o","u","t","u",".","b","e","/">>)
  THEN LET rest == AfterLast(url, <<"/">>) IN rest = <<>> \/ rest[1] = "?"
  ELSE TRUE

\* C5: for a url that contains neither "watch?v=" nor "youtu.be/", and for a
\* url of those shapes whose parsed video id is empty, extract_text_from_youtube
\* returns "[Extractor: Invalid YouTube URL format.]" and fetches no transcript.
C5_InvalidUrlSentinel ==
  fn_called = "extract_text_from_youtube" =>
    LET neither == ~Contains(fn_url, <<"w","a","t","c","h","?","v","=">>) /\ ~Contains(fn_url, <<"y","o","u","t","u",".","b","e","/">>)
    IN (neither \/ ParsedIdEmpty(fn_url)) =>
         /\ fn_ret.value = InvalidYoutubeSentinel
         /\ fn_ret.fetched = <<>>
         /\ ~fn_ret.raised

\* A short-form url with nothing after "youtu.be/", while the service would
\* have answered with a transcript
C5_Witness ==
  /\ fn_called = "extract_text_from_youtube"
  /\ fn_url = <<"h","t","t","p","s",":","/","/","y","o","u","t","u",".","b","e","/">>
  /\ fn_env.kind = "ok" /\ fn_env.entries # <<>>
  /\ fn_ret.value = InvalidYoutubeSentinel
  /\ fn_ret.fetched = <<>>

\* Every character of s is whitespace
Blank(s) == \A i \in 1..Len(s) : s[i] \in Whitespace

\* The library's answer is a failure: an exception, or no text at all
FetchFailed ==
  \/ fn_env.kind # "ok"
  \/ fn_called = "extract_text_from_url" /\ Blank(fn_env.text)
  \/ fn_called = "extract_text_from_youtube"
       /\ \A i \in 1..Len(fn_env.entries) : Blank(fn_env.entries[i])

IdAfterFirst(url, marker, stops) ==
  PrefixBefore(SubSeq(url, Find(url, marker) + Len(marker), Len(url)), stops)

\* The transcript is fetched for id, and for nothing when id is empty
FetchedFor(id) == fn_ret.fetched = IF id = <<>> THEN <<>> ELSE <<id>>

\* C9: for a url containing "youtube.com/watch?v=" the video id passed to the
\* transcript fetch is what follows the first "watch?v=" up to the next "&" or
\* the end, whatever parameters follow; for a url containing "youtu.be/" (and
\* not the watch form) it is the path segment after "youtu.be/" up to the
\* next "?" or the end (a segment read either as ending at a further "/" or
\* as running through it).
C9_VideoIdIsFirstParameter ==
  fn_called = "extract_text_from_youtube" =>
    IF Contains(fn_url, <<"y","o","u","t","u","b","e",".","c","o","m","/","w","a","t","c","h","?","v","=">>)
    THEN FetchedFor(IdAfterFirst(fn_url, <<"w","a","t","c","h","?","v","=">>, {"&"}))
    ELSE IF Contains(fn_url, <<"y","o","u","t","u",".","b","e","/">>)
    THEN \/ FetchedFor(IdAfterFirst(fn_url, <<"y","o","u","t","u",".","b","e","/">>, {"?"}))
         \/ FetchedFor(IdAfterFirst(fn_url, <<"y","o","u","t","u",".","b","e","/">>, {"?", "/"}))
    ELSE TRUE

\* The extraction as cleaned: nothing when it is an extractor sentinel
Cleaned(text) == IF StartsWith(text, ExtractorPrefix) THEN <<>> ELSE text

\* C1: the text chosen for summarization is the first non-empty one of the
\* uploaded file's text, the cleaned webpage text, the cleaned YouTube text
\* and the pasted text, in that order; when the file's text and the pasted
\* text are both present it is the file's text; the sources are never merged.
C1_FinalInputPrecedence ==
  fn_called = "final_input" =>
    LET sources == <<file_text, Cleaned(url_text), Cleaned(youtube_text), text_input>>
        present == {i \in 1..4 : sources[i] # <<>>}
    IN /\ present = {} => final_input = <<>>
       /\ present # {} =>
            final_input = sources[CHOOSE i \in present : \A j \in present : i <= j]
       /\ (file_text # <<>> /\ text_input # <<>>) => final_input = file_text
       /\ \E i \in 1..4 : final_input = sources[i]

\* A file's text and a different pasted text both present: the file's wins
C1_Witness ==
  /\ fn_called = "final_input"
  /\ file_text = <<"a">>
  /\ text_input = <<"b">>
  /\ final_input = <<"a">>

\* C2: when Summarize is pressed and final_input is empty or only whitespace,
\* no request is issued and "Please provide some input!" is shown; a request
\* is issued only for a final_input with a non-whitespace character.
C2_BlankInputBlocksRequest ==
  /\ (button /\ Blank(final_input)) =>
       /\ requests = <<>>
       /\ EmptyInputWarning \in warnings
       /\ summary = <<>>
  /\ requests # <<>> => (button /\ ~Blank(final_input))

\* Summarize pressed on a pasted text of whitespace alone
C2_Witness ==
  /\ button
  /\ final_input # <<>>
  /\ Blank(final_input)
  /\ requests = <<>>
  /\ EmptyInputWarning \in warnings

\* C7: a press of Summarize with a non-blank final_input issues exactly one
\* request, with model "mistral-7b-instruct-v0.3" and the fixed system / user
\* messages around final_input; it is not retried, and when it fails the
\* exception leaves the handler and no summary is displayed.
C7_OneFixedRequest ==
  /\ Len(requests) <= 1
  /\ (button /\ ~Blank(final_input)) =>
       /\ Len(requests) = 1
       /\ Len(responses) = 1
       /\ requests[1].model = "mistral-7b-instruct-v0.3"
       /\ requests[1].messages =
            <<[role |-> "system", content |-> <<"Y","o","u"," ","a","r","e"," ","a"," ","h","e","l","p","f","u","l"," ","s","u","m","m","a","r","i","z","e","r",".">>],
              [role |-> "user",
               content |-> <<"S","u","m","m","a","r","i","z","e"," ","t","h","i","s"," ","i","n"," ","b","u","l","l","e","t"," ","p","o","i","n","t","s",":","\n","\n">> \o final_input]>>
       /\ responses[1].kind # "ok" =>
            /\ crashed = "summarize_text"
            /\ summary = <<>>
            /\ warnings = {}
       /\ responses[1].kind = "ok" => summary = <<responses[1].content>>

\* Summarize pressed on a text while the endpoint fails
C7_Witness ==
  /\ button
  /\ ~Blank(final_input)
  /\ Len(requests) = 1
  /\ responses[1].kind = "APIError"
  /\ crashed = "summarize_text"
  /\ summary = <<>>

\* The request's user message carries text
Carries(request, text) ==
  \E i \in 1..Len(request.messages) :
    \E k \in 0..Len(request.messages[i].content) :
      StartsWith(SubSeq(request.messages[i].content, k + 1,
                        Len(request.messages[i].content)), text)

\* C8: in a run where the webpage or the YouTube extraction returned a string
\* starting with "[Extractor", that string is shown as a warning, the cleaned
\* text is empty, and a press of Summarize sends no request with the sentinel
\* and shows the empty-input warning.
C8_SentinelNeverSummarized ==
  /\ StartsWith(url_text, ExtractorPrefix) =>
       /\ url_text \in warnings
       /\ clean_url_text = <<>>
  /\ StartsWith(youtube_text, ExtractorPrefix) =>
       /\ youtube_text \in warnings
       /\ clean_youtube_text = <<>>
  /\ (StartsWith(url_text, ExtractorPrefix) \/ StartsWith(youtube_text, ExtractorPrefix)) =>
       /\ \A i \in 1..Len(requests) : ~Carries(requests[i], ExtractorPrefix)
       /\ button => (requests = <<>> /\ EmptyInputWarning \in warnings)

\* Summarize pressed while the video's captions are disabled
C8_Witness ==
  /\ button
  /\ input_choice = "YouTube URL"
  /\ youtube_text = CaptionsDisabledSentinel
  /\ youtube_text \in warnings
  /\ requests = <<>>
  /\ EmptyInputWarning \in warnings

\* C10: in every run at most one of text_input, file_text, url_text and
\* youtube_text is non-empty, and it is the one of the selected input source:
\* no text of a source selected earlier is carried into a later run.
C10_OnlySelectedSourceHasText ==
  /\ Cardinality({i \in 1..4 :
                    <<text_input, file_text, url_text, youtube_text>>[i] # <<>>}) <= 1
  /\ text_input # <<>> => input_choice = "Paste Text"
  /\ file_text # <<>> => input_choice = "Upload File"
  /\ url_text # <<>> => input_choice = "Webpage URL"
  /\ youtube_text # <<>> => input_choice = "YouTube URL"
  /\ \A i \in 1..Len(requests) :
       requests[i].messages[2].content =
         <<"S","u","m","m","a","r","i","z","e"," ","t","h","i","s"," ","i","n"," ","b","u","l","l","e","t"," ","p","o","i","n","t","s",":","\n","\n">> \o
           (CASE input_choice = "Paste Text" -> text_input
              [] input_choice = "Upload File" -> file_text
              [] input_choice = "Webpage URL" -> url_text
              [] OTHER -> youtube_text)

\* A webpage's text summarized in a run of the "Webpage URL" source, which is
\* only selected after "Paste Text"
C10_Witness ==
  /\ input_choice = "Webpage URL"
  /\ button
  /\ url_text # <<>>
  /\ text_input = <<>>
  /\ Len(requests) = 1

====
